---- MODULE Spec2Model ----
(***************************************************************************)
(* A model of the PipeModeDataset op kernel                                *)
(* (src/pipemode_op/Dataset/src/pipemode_dataset_op_kernel.cpp):           *)
(* MakeDataset, Dataset::MakeIterator, Iterator::Iterator,                 *)
(* Iterator::GetNextInternal and BuildPipeName, over the PipeStateManager  *)
(* and the RecordReader family, whose code lives in other files and is     *)
(* modelled here from their documented contract.                           *)
(*                                                                         *)
(* Strings are sequences of one-character strings, so that concatenation,  *)
(* the trailing-slash test and std::to_string are computed, not assumed.   *)
(***************************************************************************)
EXTENDS Integers, Sequences, FiniteSets

VARIABLES
    state_file,   \* PipeStateManager: the persisted pipe index of each channel
    dataset,      \* the Dataset MakeDataset produced: <<>> or <<its fields>>
    ctx,          \* OpKernelContext: the last MakeDataset call and its status
    iters,        \* the Iterators MakeIterator returned, in creation order
    pc,           \* each thread's position in MakeIterator / GetNextInternal
    loc,          \* each thread's locals
    opened,       \* history: the FIFO paths reader constructors have opened
    created,      \* history: the RecordStreams returned, over all process runs
    run,          \* history: the number of process restarts so far
    calls,        \* history: the number of next() calls made so far
    graph_def     \* history: how the last AsGraphDefInternal call ended

vars == <<state_file, dataset, ctx, iters, pc, loc, opened, created, run, calls,
          graph_def>>

----------------------------------------------------------------------------
(* Bounds of the model. *)

MaxCreate == 2      \* MakeIterator calls that get past line 112, in a behaviour
MaxCalls == 3       \* next() calls in a behaviour
MaxRestarts == 1    \* process restarts in a behaviour

Threads == {1, 2}

----------------------------------------------------------------------------
(* Inputs the host may pass to MakeDataset. *)

NoState == -1    \* no pipe index was persisted for the channel

ValidFormats == {"RecordIO", "TFRecord", "TextLine"}
Formats == ValidFormats \cup {"CSV", "textline"}
Channels == {<<"c">>}
Directories == {<<"d">>}

(* A wider set of inputs, for the paths BuildPipeName builds. *)
PathChannels == {<<"c">>, <<"c", "_", "1">>}
PathDirectories ==
    {<<>>, <<"/">>, <<"d">>, <<"d", "/">>, <<"d", "/", "/">>, <<"d", "/", "e">>}
PathIndices == {NoState, 9, 99}
AllChannels == Channels \cup PathChannels

----------------------------------------------------------------------------
(* std::to_string(uint32_t): the decimal digits, most significant first. *)

Digit(k) == <<"0", "1", "2", "3", "4", "5", "6", "7", "8", "9">>[k + 1]

RECURSIVE to_string(_)
to_string(n) ==
    IF n < 10 THEN <<Digit(n)>>
    ELSE to_string(n \div 10) \o <<Digit(n % 10)>>

(* channel_path[channel_path.length() - 1] != '/' : the values the test can
   take.  On an empty string length() - 1 wraps to SIZE_MAX and the read is
   out of bounds (undefined behaviour): either value may come out. *)
LastIsNotSlash(channel_path) ==
    IF Len(channel_path) = 0 THEN BOOLEAN
    ELSE {channel_path[Len(channel_path)] # "/"}

(* BuildPipeName: the set of paths the call can return (one, unless the
   behaviour is undefined). *)
BuildPipeName(channel_directory, channel_name, pipe_index) ==
    LET pipe_name == channel_name \o <<"_">> \o to_string(pipe_index)
    IN  { (IF c THEN channel_directory \o <<"/">> ELSE channel_directory)
              \o pipe_name : c \in LastIsNotSlash(channel_directory) }

----------------------------------------------------------------------------
(* PipeStateManager. *)

(* GetPipeIndex: the last persisted value, 0 when nothing was persisted. *)
GetPipeIndex(channel) ==
    IF state_file[channel] = NoState THEN 0 ELSE state_file[channel]

(* IncrementPipeIndex: the state after current_index + 1 was persisted. *)
IncrementPipeIndex(channel) ==
    [state_file EXCEPT ![channel] = GetPipeIndex(channel) + 1]

----------------------------------------------------------------------------
NoLocals ==
    [it |-> 0, prefix_index |-> 0, ptr |-> <<>>, after |-> 0]

NoCall == [record_format |-> "", status |-> "", output |-> FALSE]

(* No AsGraphDefInternal call has been made. *)
NoConversion == [called |-> FALSE, returned |-> FALSE, status |-> "", thrown |-> ""]

Init ==
    /\ state_file = [c \in AllChannels |-> NoState]
    /\ dataset = <<>>
    /\ ctx = NoCall
    /\ iters = <<>>
    /\ pc = [t \in Threads |-> "idle"]
    /\ loc = [t \in Threads |-> NoLocals]
    /\ opened = {}
    /\ created = <<>>
    /\ run = 0
    /\ calls = 0
    /\ graph_def = NoConversion

----------------------------------------------------------------------------
(* PipeModeDatasetOp::MakeDataset and the Dataset constructor. *)

Dataset(record_format, channel_directory, channel) ==
    [record_format_ |-> record_format,
     channel_directory_ |-> channel_directory,
     channel_ |-> channel]

(* Variant of MakeDatasetAccepts: the format check left out. *)
MakeDatasetAcceptsAny(record_format) == TRUE

(* line 94: the record formats OP_REQUIRES lets through. *)
MakeDatasetAccepts(record_format) ==
    record_format = "RecordIO" \/ record_format = "TFRecord"
        \/ record_format = "TextLine"

(* lines 81-97.  A process run builds one Dataset: a call that fails leaves
   the slot empty and the host may call again. *)
MakeDataset(record_format, channel_directory, channel) ==
    /\ dataset = <<>>
    /\ IF MakeDatasetAccepts(record_format)
       THEN /\ dataset' = <<Dataset(record_format, channel_directory, channel)>>
            /\ ctx' = [record_format |-> record_format, status |-> "OK",
                       output |-> TRUE]
       ELSE /\ dataset' = dataset
            /\ ctx' = [record_format |-> record_format,
                       status |-> "InvalidArgument", output |-> FALSE]
    /\ UNCHANGED <<state_file, iters, pc, loc, opened, created, run, calls,
                   graph_def>>

----------------------------------------------------------------------------
(* Iterator::Iterator: the reader variant and the FIFO it opens. *)

(* Variant of RecordReaderFor: the second test never matches, so "TFRecord"
   falls through to the last branch. *)
RecordReaderForFallsThrough(record_format) ==
    IF record_format = "RecordIO" THEN "RecordIOReader"
    ELSE IF record_format = "TFRecords" THEN "TFRecordReader"
    ELSE "TextLineRecordReader"

RecordReaderFor(record_format) ==
    IF record_format = "RecordIO" THEN "RecordIOReader"
    ELSE IF record_format = "TFRecord" THEN "TFRecordReader"
    ELSE "TextLineRecordReader"

(* Variant of Iterator: the path built for the index after the one given. *)
IteratorOffByOne(prefix_index, record_format, channel_directory, channel, pipe_index) ==
    { [prefix_index |-> prefix_index,
       pipe_index |-> pipe_index,
       pipe_path |-> pipe_path,
       record_reader_ |-> RecordReaderFor(record_format),
       stream |-> "open",
       nread |-> 0,
       mu_ |-> 0,
       handed |-> <<>>,
       callers |-> {},
       results |-> <<>>] :
      pipe_path \in BuildPipeName(channel_directory, channel, pipe_index + 1) }

(* The Iterators the constructor can build (one per outcome of BuildPipeName).
   stream, nread: the reader's position; mu_: the thread holding the lock (0:
   free); history: handed, the records given to callers, in order; callers,
   the threads they were given to; results, the next() calls that returned. *)
Iterator(prefix_index, record_format, channel_directory, channel, pipe_index) ==
    { [prefix_index |-> prefix_index,
       pipe_index |-> pipe_index,
       pipe_path |-> pipe_path,
       record_reader_ |-> RecordReaderFor(record_format),
       stream |-> "open",
       nread |-> 0,
       mu_ |-> 0,
       handed |-> <<>>,
       callers |-> {},
       results |-> <<>>] :
      pipe_path \in BuildPipeName(channel_directory, channel, pipe_index) }

----------------------------------------------------------------------------
(* Dataset::MakeIterator, one step per statement. *)

InMakeIterator(t) == pc[t] \in {"mi_ctor", "mi_incr"}

(* lines 111-112: the prefix, with the pipe index read for it. *)
MakeIteratorPrefix(t) ==
    /\ pc[t] = "idle"
    /\ dataset # <<>>
    /\ Len(created) + Cardinality({u \in Threads : InMakeIterator(u)}) < MaxCreate
    /\ loc' = [loc EXCEPT ![t].prefix_index = GetPipeIndex(dataset[1].channel_)]
    /\ pc' = [pc EXCEPT ![t] = "mi_ctor"]
    /\ UNCHANGED <<state_file, dataset, ctx, iters, opened, created, run,
                   calls, graph_def>>

(* Variant of MakeIteratorConstruct: the index taken from the number of
   Iterators this Dataset has returned, not from the PipeStateManager. *)
MakeIteratorConstructCountsOwn(t) ==
    /\ pc[t] = "mi_ctor"
    /\ \E it \in Iterator(loc[t].prefix_index, dataset[1].record_format_,
                          dataset[1].channel_directory_, dataset[1].channel_,
                          Len(iters)) :
          /\ opened' = opened \cup {it.pipe_path}
          /\ loc' = [loc EXCEPT ![t].ptr = <<it>>]
          /\ pc' = [pc EXCEPT ![t] = "mi_incr"]
    /\ UNCHANGED <<state_file, dataset, ctx, iters, created, run, calls,
                   graph_def>>

(* Variant of MakeIteratorConstruct: the pipe index advanced before the
   reader is constructed. *)
MakeIteratorConstructAdvancesFirst(t) ==
    /\ pc[t] = "mi_ctor"
    /\ state_file' = IncrementPipeIndex(dataset[1].channel_)
    /\ \E it \in Iterator(loc[t].prefix_index, dataset[1].record_format_,
                          dataset[1].channel_directory_, dataset[1].channel_,
                          GetPipeIndex(dataset[1].channel_)) :
          \/ /\ opened' = opened \cup {it.pipe_path}
             /\ loc' = [loc EXCEPT ![t].ptr = <<it>>]
             /\ pc' = [pc EXCEPT ![t] = "mi_incr"]
          \/ /\ opened' = opened
             /\ loc' = [loc EXCEPT ![t] = NoLocals]
             /\ pc' = [pc EXCEPT ![t] = "idle"]
    /\ UNCHANGED <<dataset, ctx, iters, created, run, calls, graph_def>>

(* lines 113-115: the pipe index read again and the Iterator constructed; the
   reader's constructor opens the FIFO, or throws. *)
MakeIteratorConstruct(t) ==
    /\ pc[t] = "mi_ctor"
    /\ \E it \in Iterator(loc[t].prefix_index, dataset[1].record_format_,
                          dataset[1].channel_directory_, dataset[1].channel_,
                          GetPipeIndex(dataset[1].channel_)) :
          \/ /\ opened' = opened \cup {it.pipe_path}
             /\ loc' = [loc EXCEPT ![t].ptr = <<it>>]
             /\ pc' = [pc EXCEPT ![t] = "mi_incr"]
          \/ /\ opened' = opened
             /\ loc' = [loc EXCEPT ![t] = NoLocals]
             /\ pc' = [pc EXCEPT ![t] = "idle"]
    /\ UNCHANGED <<state_file, dataset, ctx, iters, created, run, calls,
                   graph_def>>

(* line 117: the Iterator is handed to the caller. *)
MakeIteratorReturn(t) ==
    /\ iters' = Append(iters, loc[t].ptr[1])
    /\ created' = Append(created,
                         [channel |-> dataset[1].channel_,
                          channel_directory |-> dataset[1].channel_directory_,
                          pipe_index |-> loc[t].ptr[1].pipe_index,
                          pipe_path |-> loc[t].ptr[1].pipe_path,
                          run |-> run])
    /\ pc' = [pc EXCEPT ![t] = "idle"]
    /\ loc' = [loc EXCEPT ![t] = NoLocals]

(* Variant of MakeIteratorIncrement: the call of IncrementPipeIndex left
   out. *)
MakeIteratorIncrementSkipped(t) ==
    /\ pc[t] = "mi_incr"
    /\ state_file' = state_file
    /\ MakeIteratorReturn(t)
    /\ UNCHANGED <<dataset, ctx, opened, run, calls, graph_def>>

(* Variant of MakeIteratorIncrement: the index is persisted, and the call
   fails all the same. *)
MakeIteratorIncrementPersistsThenFails(t) ==
    /\ pc[t] = "mi_incr"
    /\ \/ /\ state_file' = IncrementPipeIndex(dataset[1].channel_)
          /\ MakeIteratorReturn(t)
       \/ /\ state_file' = IncrementPipeIndex(dataset[1].channel_)
          /\ pc' = [pc EXCEPT ![t] = "idle"]
          /\ loc' = [loc EXCEPT ![t] = NoLocals]
          /\ UNCHANGED <<iters, created>>
    /\ UNCHANGED <<dataset, ctx, opened, run, calls, graph_def>>

(* lines 116-117: IncrementPipeIndex persists the index, and the Iterator is
   returned; or it throws, ptr is destroyed and nothing is returned. *)
MakeIteratorIncrement(t) ==
    /\ pc[t] = "mi_incr"
    /\ \/ /\ state_file' = IncrementPipeIndex(dataset[1].channel_)
          /\ MakeIteratorReturn(t)
       \/ /\ state_file' = state_file
          /\ pc' = [pc EXCEPT ![t] = "idle"]
          /\ loc' = [loc EXCEPT ![t] = NoLocals]
          /\ UNCHANGED <<iters, created>>
    /\ UNCHANGED <<dataset, ctx, opened, run, calls, graph_def>>

(* MakeIterator called while no other call of it is in progress. *)
MakeIteratorPrefixSerial(t) ==
    /\ \A u \in Threads : ~InMakeIterator(u)
    /\ MakeIteratorPrefix(t)

----------------------------------------------------------------------------
(* RecordReader::ReadRecord: what a read can do at the reader's position, and
   where it leaves the stream.  A record read leaves the stream at the next
   frame; a clean end and a frame cut short by the end of the stream leave it
   at its end, where every later read finds no bytes; a frame that does not
   parse is consumed; an I/O fault is fatal for the stream. *)
ReadRecord(it) ==
    IF it.stream = "ended" THEN {[decoded |-> "eos", stream |-> "ended"]}
    ELSE IF it.stream = "failed"
    THEN {[decoded |-> "IoFailure", stream |-> "failed"]}
    ELSE {[decoded |-> "record", stream |-> "open"],
          [decoded |-> "eos", stream |-> "ended"],
          [decoded |-> "CorruptRecord", stream |-> "open"],
          [decoded |-> "TruncatedRecord", stream |-> "ended"],
          [decoded |-> "IoFailure", stream |-> "failed"]}

----------------------------------------------------------------------------
(* Iterator::GetNextInternal: the entry up to the lock, then the body of the
   try block up to the return.  The body touches, besides the Iterator, only
   the call's own locals and out parameters. *)

InGetNext(t) == pc[t] = "gn_read"

(* Variant of Return: the lock is still held when an exception has left the
   try block. *)
ReturnHoldingLock(t, status, message, out_tensors, end_of_sequence, decoded, reads) ==
    /\ iters' = [iters EXCEPT
          ![loc[t].it].results =
              Append(@, [status |-> status,
                         message |-> message,
                         out_tensors |-> out_tensors,
                         end_of_sequence |-> end_of_sequence,
                         decoded |-> decoded.decoded,
                         reads |-> reads,
                         after |-> loc[t].after]),
          ![loc[t].it].handed = @ \o out_tensors,
          ![loc[t].it].callers = IF out_tensors = <<>> THEN @ ELSE @ \cup {t},
          ![loc[t].it].stream = decoded.stream,
          ![loc[t].it].nread = IF decoded.decoded = "record" THEN @ + 1 ELSE @,
          ![loc[t].it].mu_ = IF @ = t /\ status = "OK" THEN 0 ELSE @]
    /\ pc' = [pc EXCEPT ![t] = "idle"]
    /\ loc' = [loc EXCEPT ![t] = NoLocals]

(* What the caller gets back from a call: the status and the two out
   parameters (the caller passes an empty out_tensors); and, as history, what
   the decoder did in the call, how many reads the call made and how many
   calls had returned when it took the lock. *)
Return(t, status, message, out_tensors, end_of_sequence, decoded, reads) ==
    /\ iters' = [iters EXCEPT
          ![loc[t].it].results =
              Append(@, [status |-> status,
                         message |-> message,
                         out_tensors |-> out_tensors,
                         end_of_sequence |-> end_of_sequence,
                         decoded |-> decoded.decoded,
                         reads |-> reads,
                         after |-> loc[t].after]),
          ![loc[t].it].handed = @ \o out_tensors,
          ![loc[t].it].callers = IF out_tensors = <<>> THEN @ ELSE @ \cup {t},
          ![loc[t].it].stream = decoded.stream,
          ![loc[t].it].nread = IF decoded.decoded = "record" THEN @ + 1 ELSE @,
          ![loc[t].it].mu_ = IF @ = t THEN 0 ELSE @]
    /\ pc' = [pc EXCEPT ![t] = "idle"]
    /\ loc' = [loc EXCEPT ![t] = NoLocals]

(* Variant of GetNextInternalLock: a next() call advances the pipe index. *)
GetNextInternalLockAdvances(t, i) ==
    /\ pc[t] = "idle"
    /\ i \in DOMAIN iters
    /\ calls < MaxCalls
    /\ calls' = calls + 1
    /\ iters[i].mu_ = 0
    /\ iters' = [iters EXCEPT ![i].mu_ = t]
    /\ loc' = [loc EXCEPT ![t].it = i, ![t].after = Len(iters[i].results)]
    /\ pc' = [pc EXCEPT ![t] = "gn_read"]
    /\ state_file' = IncrementPipeIndex(dataset[1].channel_)
    /\ UNCHANGED <<dataset, ctx, opened, created, run, graph_def>>

(* lines 163-167: the locals, and mutex_lock l(mu_), which waits until the
   lock is free. *)
GetNextInternalLock(t, i) ==
    /\ pc[t] = "idle"
    /\ i \in DOMAIN iters
    /\ calls < MaxCalls
    /\ calls' = calls + 1
    /\ iters[i].mu_ = 0
    /\ iters' = [iters EXCEPT ![i].mu_ = t]
    /\ loc' = [loc EXCEPT ![t].it = i, ![t].after = Len(iters[i].results)]
    /\ pc' = [pc EXCEPT ![t] = "gn_read"]
    /\ UNCHANGED <<state_file, dataset, ctx, opened, created, run, graph_def>>

(* The same entry in two steps, for the claims about waiting callers:
   lines 163-165, the call arriving at mutex_lock l(mu_); then line 167, the
   lock taken once it is free. *)
GetNextInternalWait(t, i) ==
    /\ pc[t] = "idle"
    /\ i \in DOMAIN iters
    /\ calls < MaxCalls
    /\ calls' = calls + 1
    /\ loc' = [loc EXCEPT ![t].it = i]
    /\ pc' = [pc EXCEPT ![t] = "gn_wait"]
    /\ UNCHANGED <<state_file, dataset, ctx, iters, opened, created, run, graph_def>>

GetNextInternalAcquire(t) ==
    /\ pc[t] = "gn_wait"
    /\ iters[loc[t].it].mu_ = 0
    /\ iters' = [iters EXCEPT ![loc[t].it].mu_ = t]
    /\ loc' = [loc EXCEPT ![t].after = Len(iters[loc[t].it].results)]
    /\ pc' = [pc EXCEPT ![t] = "gn_read"]
    /\ UNCHANGED <<state_file, dataset, ctx, opened, created, run, calls, graph_def>>

(* Variant of GetNextInternalEmplace: the record is not appended. *)
GetNextInternalEmplaceDropped(t, r, storage, e) ==
    Return(t, "OK", "", <<>>, e, r, 1)

(* lines 169 and 176: out_tensors->emplace_back(result_tensor); return
   Status::OK(). *)
GetNextInternalEmplace(t, r, storage, e) ==
    Return(t, "OK", "", <<storage>>, e, r, 1)

(* Variant of GetNextInternalEndOfSequence: a clean end reported as an
   error. *)
GetNextInternalEndOfSequenceAsError(t, r, e) ==
    Return(t, "INTERNAL", "eos", <<>>, e, r, 1)

(* lines 171 and 176: *end_of_sequence = true; return Status::OK(). *)
GetNextInternalEndOfSequence(t, r, e) ==
    Return(t, "OK", "", <<>>, TRUE, r, 1)

(* Variant of GetNextInternalCatch: the failure reported as the end of the
   sequence. *)
GetNextInternalCatchSwallowed(t, r, e) ==
    Return(t, "OK", "", <<>>, TRUE, r, 1)

(* lines 173-174: return Status(INTERNAL, err.what()) *)
GetNextInternalCatch(t, r, e) ==
    Return(t, "INTERNAL", r.decoded, <<>>, e, r, 1)

(* lines 168-176: record_reader_->ReadRecord(storage) and what follows it.
   The k-th record the reader decodes is written k.  The lock is released at
   the end of the try block, or when an exception leaves it. *)
GetNextInternalRead(t) ==
    /\ pc[t] = "gn_read"
    /\ \E r \in ReadRecord(iters[loc[t].it]) :
          LET e == FALSE    \* line 163: *end_of_sequence = false
          IN  \/ /\ r.decoded = "record"
                 /\ GetNextInternalEmplace(t, r, iters[loc[t].it].nread + 1, e)
              \/ /\ r.decoded = "eos"
                 /\ GetNextInternalEndOfSequence(t, r, e)
              \/ /\ r.decoded \notin {"record", "eos"}
                 /\ GetNextInternalCatch(t, r, e)
    /\ UNCHANGED <<state_file, dataset, ctx, opened, created, run, calls,
                   graph_def>>

----------------------------------------------------------------------------
(* Dataset::AsGraphDefInternal, lines 134-137: the body is a throw, so the
   call returns no Status and sets no output; the std::runtime_error leaves
   the function towards the caller's frames.  Nothing of the Dataset is
   read or written. *)
AsGraphDefInternal(t) ==
    /\ pc[t] = "idle"
    /\ dataset # <<>>
    /\ graph_def' = [called |-> TRUE,
                     returned |-> FALSE,
                     status |-> "",
                     thrown |-> "Conversion to GraphDef is not supported."]
    /\ UNCHANGED <<state_file, dataset, ctx, iters, pc, loc, opened, created,
                   run, calls>>

----------------------------------------------------------------------------
(* The process ends and a new one starts over the same state directory: the
   objects are gone, the persisted pipe index stays. *)
Restart ==
    /\ run < MaxRestarts
    /\ \A t \in Threads : pc[t] = "idle"
    /\ dataset # <<>>
    /\ dataset' = <<>>
    /\ ctx' = NoCall
    /\ iters' = <<>>
    /\ run' = run + 1
    /\ UNCHANGED <<state_file, pc, loc, opened, created, calls, graph_def>>

----------------------------------------------------------------------------
GetNextInternal(t) ==
    \/ \E i \in 1..Len(iters) : GetNextInternalLock(t, i)
    \/ GetNextInternalRead(t)

Next ==
    \/ \E f \in Formats, d \in Directories, c \in Channels : MakeDataset(f, d, c)
    \/ \E t \in Threads : MakeIteratorPrefix(t)
    \/ \E t \in Threads : MakeIteratorConstruct(t)
    \/ \E t \in Threads : MakeIteratorIncrement(t)
    \/ \E t \in Threads : GetNextInternal(t)
    \/ Restart

Spec == Init /\ [][Next]_vars

(* The same program with the calls of MakeIterator serialized by the host. *)
NextSerial ==
    \/ \E f \in Formats, d \in Directories, c \in Channels : MakeDataset(f, d, c)
    \/ \E t \in Threads : MakeIteratorPrefixSerial(t)
    \/ \E t \in Threads : MakeIteratorConstruct(t)
    \/ \E t \in Threads : MakeIteratorIncrement(t)
    \/ \E t \in Threads : GetNextInternal(t)
    \/ Restart

SpecSerial == Init /\ [][NextSerial]_vars

(* The program of one process with the callers waiting at the lock shown.  A
   caller waiting at a lock that stays free takes it, and a ReadRecord call
   in progress comes back: with a record, with the end of the stream, or by
   throwing. *)
NextFair ==
    \/ \E f \in Formats, d \in Directories, c \in Channels : MakeDataset(f, d, c)
    \/ \E t \in Threads : MakeIteratorPrefixSerial(t)
    \/ \E t \in Threads : MakeIteratorConstruct(t)
    \/ \E t \in Threads : MakeIteratorIncrement(t)
    \/ \E t \in Threads, i \in 1..Len(iters) : GetNextInternalWait(t, i)
    \/ \E t \in Threads : GetNextInternalAcquire(t)
    \/ \E t \in Threads : GetNextInternalRead(t)

SpecFair ==
    /\ Init
    /\ [][NextFair]_vars
    /\ \A t \in Threads : WF_vars(GetNextInternalAcquire(t))
    /\ \A t \in Threads : WF_vars(GetNextInternalRead(t))

(* RecordStreams created one after the other over a wider set of channel
   directories, channel names and persisted pipe indices, and the graph
   conversion of the Dataset requested. *)
InitPath ==
    /\ state_file \in [AllChannels -> PathIndices]
    /\ dataset = <<>>
    /\ ctx = NoCall
    /\ iters = <<>>
    /\ pc = [t \in Threads |-> "idle"]
    /\ loc = [t \in Threads |-> NoLocals]
    /\ opened = {}
    /\ created = <<>>
    /\ run = 0
    /\ calls = 0
    /\ graph_def = NoConversion

NextPath ==
    \/ \E f \in Formats, d \in PathDirectories, c \in PathChannels :
          MakeDataset(f, d, c)
    \/ \E t \in Threads : MakeIteratorPrefixSerial(t)
    \/ \E t \in Threads : MakeIteratorConstruct(t)
    \/ \E t \in Threads : MakeIteratorIncrement(t)
    \/ \E t \in Threads : AsGraphDefInternal(t)

SpecPath == InitPath /\ [][NextPath]_vars

----------------------------------------------------------------------------
(* Helpers of the properties. *)

Errors == {"CorruptRecord", "TruncatedRecord", "IoFailure"}

(* The RecordStreams created before the k-th one on the same channel. *)
EarlierOnChannel(k) ==
    {j \in 1..(k - 1) : created[j].channel = created[k].channel}

CreatedOn(c) == {k \in DOMAIN created : created[k].channel = c}

(* What a caller can observe of a returned call. *)
Outcome(r) == <<r.status, r.message, r.out_tensors, r.end_of_sequence>>

Terminal(r) == r.end_of_sequence \/ r.status # "OK"

ReturnsRecord(r) ==
    /\ r.status = "OK"
    /\ Len(r.out_tensors) = 1
    /\ ~r.end_of_sequence

ReturnsEndOfSequence(r) ==
    /\ r.status = "OK"
    /\ r.out_tensors = <<>>
    /\ r.end_of_sequence

ReturnsError(r) ==
    /\ r.status # "OK"
    /\ r.out_tensors = <<>>
    /\ ~r.end_of_sequence

AllResults == {iters[i].results[k] : <<i, k>> \in
                  {p \in (DOMAIN iters) \X (1..MaxCalls + 1) :
                      p[2] \in DOMAIN iters[p[1]].results}}

StripOneSlash(dir) ==
    IF Len(dir) > 0 /\ dir[Len(dir)] = "/" THEN SubSeq(dir, 1, Len(dir) - 1)
    ELSE dir

----------------------------------------------------------------------------
(* C1: with the calls of MakeIterator made one after the other and no reset
   of the store, no step lowers the pipe index of a channel, and no two
   RecordStreams created on a channel target the same FIFO path. *)
C1_IndexGrowsPathsDiffer ==
    [][/\ \A c \in AllChannels : GetPipeIndex(c)' >= GetPipeIndex(c)
       /\ \A k \in DOMAIN created' : \A j \in EarlierOnChannel(k)' :
             created'[j].pipe_path # created'[k].pipe_path]_vars

C1_Witness ==
    \E k \in DOMAIN created : EarlierOnChannel(k) # {}

(* C2: under every interleaving of concurrent MakeIterator calls on one
   Dataset, the RecordStreams created read distinct pipe indices and target
   distinct FIFO paths. *)
C2_ConcurrentStreamsDiffer ==
    \A k \in DOMAIN created : \A j \in EarlierOnChannel(k) :
        /\ created[j].pipe_index # created[k].pipe_index
        /\ created[j].pipe_path # created[k].pipe_path

(* C3: once a next() call on a RecordStream has returned end-of-stream or an
   error, every call made after it returns the identical result. *)
C3_TerminalResultRepeats ==
    \A i \in DOMAIN iters : \A a, b \in DOMAIN iters[i].results :
        (a < b /\ Terminal(iters[i].results[a])
               /\ iters[i].results[b].after >= a)
            => Outcome(iters[i].results[b]) = Outcome(iters[i].results[a])

(* C4: a MakeDataset call with a record_format other than "RecordIO",
   "TFRecord" or "TextLine" ends with InvalidArgument and no output, and the
   step leaves the Dataset slot, the Iterators, the opened FIFOs and the pipe
   index as they were. *)
C4_InvalidFormatRejected ==
    [][(ctx' # ctx /\ ctx'.record_format \in Formats \ ValidFormats)
          => /\ ctx'.status = "InvalidArgument"
             /\ ~ctx'.output
             /\ dataset' = <<>>
             /\ UNCHANGED <<dataset, iters, opened, state_file, loc>>]_vars

C4_Witness ==
    /\ ctx.record_format \in Formats \ ValidFormats
    /\ ctx.status = "InvalidArgument"

(* C5: from a fresh state directory, with creations made one after the other,
   the n-th RecordStream created on a channel (counting from 0) has pipe
   index n and the FIFO path of index n, and between creations GetPipeIndex
   is the number of RecordStreams created. *)
C5_NthCreationTargetsN ==
    /\ \A k \in DOMAIN created :
          /\ created[k].pipe_index = Cardinality(EarlierOnChannel(k))
          /\ created[k].pipe_path \in
                BuildPipeName(created[k].channel_directory, created[k].channel,
                              Cardinality(EarlierOnChannel(k)))
    /\ \A c \in AllChannels : GetPipeIndex(c) = Cardinality(CreatedOn(c))

C5_Witness ==
    /\ Len(created) = 2
    /\ created[2].pipe_index = 1
    /\ GetPipeIndex(created[2].channel) = 2

(* C6: the first RecordStream a process creates on a channel after a restart
   has as pipe index the number of RecordStreams created on the channel
   before the restart. *)
C6_IndexSurvivesRestart ==
    \A k \in DOMAIN created :
        (/\ created[k].run > 0
         /\ \A j \in EarlierOnChannel(k) : created[j].run < created[k].run)
            => created[k].pipe_index = Cardinality(EarlierOnChannel(k))

C6_Witness ==
    \E k \in DOMAIN created :
        /\ created[k].run > 0
        /\ EarlierOnChannel(k) # {}
        /\ \A j \in EarlierOnChannel(k) : created[j].run < created[k].run
        /\ created[k].pipe_index > 0

(* C7: for every base directory, channel name and pipe index the path built
   is the base directory (without its trailing slash, if it has one), "/",
   the channel name, "_" and the index in decimal. *)
C7_PathIsDirSlashName ==
    \A k \in DOMAIN created :
        created[k].pipe_path =
            StripOneSlash(created[k].channel_directory) \o <<"/">>
                \o created[k].channel \o <<"_">>
                \o to_string(created[k].pipe_index)

(* C8: every returned next() call made exactly one read and ended in exactly
   one of: OK with one record and end_of_sequence false, after the decoder
   gave a record; OK with no record and end_of_sequence true, after a clean
   end of stream; a non-OK status with no record and end_of_sequence false,
   after a decoder failure. *)
C8_OneOfThreeOutcomes ==
    \A r \in AllResults :
        /\ r.reads = 1
        /\ r.decoded = "record" => ReturnsRecord(r)
        /\ r.decoded = "eos" => ReturnsEndOfSequence(r)
        /\ r.decoded \in Errors => ReturnsError(r)
        /\ r.decoded \in {"record", "eos"} \cup Errors

C8_Witness ==
    \E i \in DOMAIN iters : \E a, b, c \in DOMAIN iters[i].results :
        /\ ReturnsRecord(iters[i].results[a])
        /\ ReturnsError(iters[i].results[b])
        /\ ReturnsEndOfSequence(iters[i].results[c])

(* C9: a failure of the decoder or the stream in a next() call is the result
   of that call: status INTERNAL carrying the failure's message, no record,
   no end-of-sequence signal, after a single read. *)
C9_FailureSurfaced ==
    \A r \in AllResults :
        r.decoded \in Errors
            => /\ r.status = "INTERNAL"
               /\ r.message = r.decoded
               /\ r.out_tensors = <<>>
               /\ ~r.end_of_sequence
               /\ r.reads = 1

C9_Witness ==
    \A e \in Errors : \E r \in AllResults : r.decoded = e /\ r.status = "INTERNAL"

(* C10: on every RecordStream the records handed to callers are, in order,
   the first, second, ... record the decoder produced, none missing; a call
   that returns a record returns exactly one, and a call that returns after
   another returns a later record, whichever threads made the calls. *)
C10_RecordsInOrder ==
    \A i \in DOMAIN iters :
        /\ Len(iters[i].handed) = iters[i].nread
        /\ \A k \in DOMAIN iters[i].handed : iters[i].handed[k] = k
        /\ \A a, b \in DOMAIN iters[i].results :
              LET ra == iters[i].results[a]
                  rb == iters[i].results[b]
              IN  /\ ra.decoded = "record" => Len(ra.out_tensors) = 1
                  /\ (a < b /\ ra.decoded = "record" /\ rb.decoded = "record")
                        => ra.out_tensors[1] < rb.out_tensors[1]

C10_Witness ==
    \E i \in DOMAIN iters : \E a, b \in DOMAIN iters[i].results :
        /\ a < b
        /\ iters[i].results[a].out_tensors = <<1>>
        /\ iters[i].results[b].out_tensors = <<2>>
        /\ Cardinality(iters[i].callers) = 2
        /\ \E t \in Threads : pc[t] = "gn_read" /\ loc[t].it = i

(* C11: with the calls of MakeIterator made one after the other, a call that
   has constructed its reader targets the index that is the number of
   RecordStreams created on the channel; when it ends without a RecordStream
   (IncrementPipeIndex failed) no Iterator is handed out, the pipe index is as
   it was and the path the next attempt builds is the path of the failed one;
   when it ends with a RecordStream the pipe index has grown by exactly 1. *)
C11_PersistFailureLeavesIndex ==
    [][\A t \in Threads : pc[t] = "mi_incr" =>
          /\ loc[t].ptr[1].pipe_index = Cardinality(CreatedOn(dataset[1].channel_))
          /\ pc'[t] = "idle" =>
                \/ /\ created' = created
                   /\ iters' = iters
                   /\ state_file' = state_file
                   /\ loc[t].ptr[1].pipe_path \in
                         BuildPipeName(dataset[1].channel_directory_,
                                       dataset[1].channel_,
                                       GetPipeIndex(dataset[1].channel_)')
                \/ /\ Len(created') = Len(created) + 1
                   /\ iters' = Append(iters, loc[t].ptr[1])
                   /\ GetPipeIndex(dataset[1].channel_)' =
                         GetPipeIndex(dataset[1].channel_) + 1]_vars

(* A creation has failed after its FIFO was opened, and the retry has read
   the pipe index for its prefix. *)
C11_Witness ==
    /\ created = <<>>
    /\ opened # {}
    /\ \E t \in Threads :
          /\ pc[t] = "mi_ctor"
          /\ loc[t].prefix_index = 0
          /\ opened = BuildPipeName(dataset[1].channel_directory_,
                                    dataset[1].channel_, loc[t].prefix_index)

(* C12: every AsGraphDefInternal call returns to its caller, with a status
   that says the conversion is not supported, and throws nothing. *)
C12_NotSupportedIsReturned ==
    graph_def.called =>
        /\ graph_def.returned
        /\ graph_def.status \notin {"", "OK"}
        /\ graph_def.thrown = ""

(* C13: a step changes the pipe index of a channel only by adding 1 to it,
   and only as the step in which a MakeIterator call returns a RecordStream
   of that channel; every such step adds 1.  So a MakeDataset call, accepted
   or rejected, and every step of a next() call, whatever it returns, leave
   the pipe index as it was. *)
C13_IndexChangedOnlyByCreation ==
    [][/\ \A c \in AllChannels :
             state_file'[c] # state_file[c] =>
                /\ GetPipeIndex(c)' = GetPipeIndex(c) + 1
                /\ created' = Append(created, created'[Len(created')])
                /\ created'[Len(created')].channel = c
                /\ \E t \in Threads : pc[t] = "mi_incr" /\ pc'[t] = "idle"
       /\ \A c \in AllChannels :
             (/\ Len(created') > Len(created)
              /\ created'[Len(created')].channel = c) =>
                GetPipeIndex(c)' = GetPipeIndex(c) + 1
       /\ ctx' # ctx => state_file' = state_file
       /\ dataset' # dataset => state_file' = state_file
       /\ (\E t \in Threads : pc'[t] # pc[t] /\ (InGetNext(t) \/ InGetNext(t)')) =>
             state_file' = state_file]_vars

(* One RecordStream has been created and the index is 1, after next() calls
   on it and, in the restarted process, a rejected MakeDataset call. *)
C13_Witness ==
    /\ Len(created) = 1
    /\ GetPipeIndex(created[1].channel) = 1
    /\ calls >= 2
    /\ run = 1
    /\ ctx.status = "InvalidArgument"

(* The threads inside ReadRecord of the i-th Iterator. *)
Reading(i) == {t \in Threads : pc[t] = "gn_read" /\ loc[t].it = i}

(* C14: at most one thread is inside ReadRecord of an Iterator, and it is
   the holder of mu_; mu_ is held by nobody else; the step in which a call
   returns, with a record, the end of the stream or an error, leaves mu_
   free; a call that holds the lock returns, and a call that waits for the
   lock gets it. *)
C14_LockExcludesAndIsReleased ==
    /\ [](\A i \in DOMAIN iters :
             /\ Cardinality(Reading(i)) <= 1
             /\ \A t \in Reading(i) : iters[i].mu_ = t
             /\ iters[i].mu_ # 0 => iters[i].mu_ \in Reading(i))
    /\ [][\A t \in Threads : (pc[t] = "gn_read" /\ pc'[t] = "idle") =>
             iters'[loc[t].it].mu_ = 0]_vars
    /\ \A t \in Threads : (pc[t] = "gn_read") ~> (pc[t] = "idle")
    /\ \A t \in Threads : (pc[t] = "gn_wait") ~> (pc[t] = "gn_read")

(* A call holds the lock of an Iterator on which an earlier call ended with
   an error, while the other thread waits for the same lock. *)
C14_Witness ==
    \E i \in DOMAIN iters : \E t, u \in Threads :
        /\ pc[t] = "gn_read" /\ loc[t].it = i /\ iters[i].mu_ = t
        /\ pc[u] = "gn_wait" /\ loc[u].it = i
        /\ \E k \in DOMAIN iters[i].results : iters[i].results[k].status = "INTERNAL"

(* The Iterators constructed: those returned and those a MakeIterator call
   holds in ptr. *)
Constructed ==
    {iters[i] : i \in DOMAIN iters}
        \cup {loc[t].ptr[1] : t \in {u \in Threads : loc[u].ptr # <<>>}}

(* C15: with the calls of MakeIterator made one after the other, a step
   changes the pipe index only when the call has constructed the reader, on
   the FIFO of the index as it is before the step; a call that ends because
   the reader's constructor failed leaves the pipe index, the opened FIFOs
   and the Iterators as they were, so that the next call builds the same
   path; and every Iterator constructed carries in its prefix the index its
   FIFO path was built with. *)
C15_ReaderBeforeIndex ==
    [][/\ state_file' # state_file =>
             \E t \in Threads :
                /\ pc[t] = "mi_incr"
                /\ loc[t].ptr # <<>>
                /\ loc[t].ptr[1].pipe_path \in opened
                /\ loc[t].ptr[1].pipe_index = GetPipeIndex(dataset[1].channel_)
       /\ \A t \in Threads : (pc[t] = "mi_ctor" /\ pc'[t] = "idle") =>
             /\ state_file' = state_file
             /\ opened' = opened
             /\ iters' = iters
             /\ created' = created
             /\ BuildPipeName(dataset[1].channel_directory_, dataset[1].channel_,
                              GetPipeIndex(dataset[1].channel_)')
                   = BuildPipeName(dataset[1].channel_directory_,
                                   dataset[1].channel_, loc[t].prefix_index)
       /\ \A it \in Constructed' :
             /\ it.prefix_index = it.pipe_index
             /\ it.pipe_path \in BuildPipeName(dataset'[1].channel_directory_,
                                               dataset'[1].channel_,
                                               it.prefix_index)]_vars

(* The second MakeIterator call has constructed its reader on the FIFO of
   index 1, and the pipe index is still 1. *)
C15_Witness ==
    \E t \in Threads :
        /\ pc[t] = "mi_incr"
        /\ loc[t].ptr[1].prefix_index = 1
        /\ loc[t].ptr[1].pipe_index = 1
        /\ loc[t].ptr[1].pipe_path \in opened
        /\ GetPipeIndex(dataset[1].channel_) = 1
        /\ Len(created) = 1

(* The reader variant that belongs to a format tag. *)
VariantOf(tag) ==
    CASE tag = "RecordIO" -> "RecordIOReader"
      [] tag = "TFRecord" -> "TFRecordReader"
      [] tag = "TextLine" -> "TextLineRecordReader"
      [] OTHER -> "none"

(* C16: every Iterator constructed has the reader variant of its Dataset's
   format tag, which is one of the three valid tags, so that the text-line
   reader of the constructor's last branch is found only with the tag
   "TextLine"; and no step changes the reader variant of an Iterator. *)
C16_ReaderMatchesFormat ==
    /\ [](\A it \in Constructed :
             /\ dataset[1].record_format_ \in ValidFormats
             /\ it.record_reader_ = VariantOf(dataset[1].record_format_)
             /\ it.record_reader_ = "TextLineRecordReader" =>
                   dataset[1].record_format_ = "TextLine")
    /\ [][\A i \in DOMAIN iters \cap DOMAIN iters' :
             iters'[i].record_reader_ = iters[i].record_reader_]_vars

(* An Iterator of a "TextLine" Dataset has the text-line reader, built in the
   constructor's last branch, and next() calls on it have returned. *)
C16_Witness ==
    \E i \in DOMAIN iters :
        /\ dataset[1].record_format_ = "TextLine"
        /\ iters[i].record_reader_ = "TextLineRecordReader"
        /\ Len(iters[i].results) >= 2
====
